---- MODULE Spec2Model ----
(***************************************************************************)
(* Puzzle-gated RSVP: the invites table, the verifier registry and the     *)
(* three guest-facing routes                                               *)
(*   GET  /api/invite/:token                                               *)
(*   POST /api/puzzle/:slug/verify                                         *)
(*   POST /api/rsvp/:token                                                 *)
(* and the Express application of server/index.js with its health route    *)
(*   GET  /api/health                                                      *)
(* Each route handler is synchronous (better-sqlite3, no await), so one    *)
(* request is one atomic step of the server process.                       *)
(* The puzzleRateLimit middleware in front of the verify route only        *)
(* refuses requests before the handler runs; the steps below are the       *)
(* requests that reach a handler.                                          *)
(***************************************************************************)
EXTENDS Integers, Sequences, FiniteSets, TLC

\* invites: the table; clock: the wall clock; last: the request just served;
\* inflight: requests that clients have sent at the same time, by call id;
\* served: the log of the in-flight calls already handled, in handling order;
\* NODE_ENV: process.env.NODE_ENV, which the process reads once, when it starts.
VARIABLES invites, clock, last, inflight, served, NODE_ENV

vars == <<invites, clock, last, inflight, served, NODE_ENV>>

\* Largest reading of the wall clock (datetime('now')) the model explores.
MaxTime == 1

\* Number of requests in flight at once in the concurrent specification.
MaxCalls == 3

\* Number of invites the admin specification lets the table hold.
MaxInvites == 2

----------------------------------------------------------------------------
(* SQL and JavaScript values *)

\* A nullable column is a sequence of length at most one: NULL is empty.
NULL == <<>>

Val(x) == <<x>>

\* JavaScript truthiness of an INTEGER column (0 is falsy).
Truthy(n) == n # 0

----------------------------------------------------------------------------
(* Events, tokens and the invites table *)

DinnerParty == "dinner-party-march-2026"

ScavengerHunt == "scavenger-hunt-july-2026"

Slugs == {DinnerParty, ScavengerHunt}

\* Tokens a request may carry; "TX" has no row in the table.
Tokens == {"T1", "T2", "TX"}

\* Display names the admin gives to invites.
GuestNames == {"Claude", "Claude & Dario"}

\* Mutant: puzzle_solved INTEGER DEFAULT 1.
NewInvite_SolvedDefault(token, slug, name, now) ==
    [token         |-> token,
     event_slug    |-> slug,
     guest_name    |-> name,
     puzzle_solved |-> 1,
     rsvp_status   |-> NULL,
     rsvp_data     |-> NULL,
     created_at    |-> now,
     solved_at     |-> NULL,
     rsvp_at       |-> NULL]

\* A fresh row: every column at its DEFAULT.
NewInvite(token, slug, name, now) ==
    [token         |-> token,
     event_slug    |-> slug,
     guest_name    |-> name,
     puzzle_solved |-> 0,
     rsvp_status   |-> NULL,
     rsvp_data     |-> NULL,
     created_at    |-> now,
     solved_at     |-> NULL,
     rsvp_at       |-> NULL]

----------------------------------------------------------------------------
(* RSVP payloads: JSON objects, as sets of <<key, value>> members *)

Payloads ==
    { {},
      {<<"attending", "Yes">>},
      {<<"attending", "No">>},
      {<<"dietary", "vegan">>},
      {<<"attending", "No">>, <<"dietary", "vegan">>} }

----------------------------------------------------------------------------
(* Puzzle submissions: the JSON value of req.body.submission *)

\* Characters are one-letter strings; a JavaScript string is a sequence of them.
Phrase ==
    <<"t", "h", "e", " ", "s", "t", "a", "r", "s", " ", "a", "l", "i", "g", "n",
      " ", "a", "t", " ", "m", "i", "d", "n", "i", "g", "h", "t">>

PhraseShouted ==
    <<" ", " ", "T", "h", "e", " ", "S", "t", "a", "r", "s", " ", "A", "l", "i",
      "g", "n", " ", "A", "t", " ", "M", "i", "d", "n", "i", "g", "h", "t", " ">>

PhraseShort == <<"t", "h", "e", " ", "s", "t", "a", "r", "s">>

NoChars == <<>>

JsUndefined == [type |-> "undefined", chars |-> NoChars]

JsNumber == [type |-> "number", chars |-> NoChars]

JsString(s) == [type |-> "string", chars |-> s]

\* submission absent from the body, or an object whose .answer is as given
Submissions ==
    { [type |-> "undefined", answer |-> JsUndefined],
      [type |-> "object", answer |-> JsUndefined],
      [type |-> "object", answer |-> JsNumber],
      [type |-> "object", answer |-> JsString(Phrase)],
      [type |-> "object", answer |-> JsString(PhraseShouted)],
      [type |-> "object", answer |-> JsString(PhraseShort)],
      [type |-> "object", answer |-> JsString(NoChars)] }

RECURSIVE trimStart(_)
trimStart(s) ==
    IF s # <<>> /\ Head(s) = " " THEN trimStart(Tail(s)) ELSE s

RECURSIVE trimEnd(_)
trimEnd(s) ==
    IF s # <<>> /\ s[Len(s)] = " " THEN trimEnd(SubSeq(s, 1, Len(s) - 1)) ELSE s

trim(s) == trimEnd(trimStart(s))

lowerChar(c) ==
    CASE c = "T" -> "t"
      [] c = "S" -> "s"
      [] c = "A" -> "a"
      [] c = "M" -> "m"
      [] OTHER   -> c

toLowerCase(s) == [i \in 1..Len(s) |-> lowerChar(s[i])]

----------------------------------------------------------------------------
(* Puzzle verifiers (server/verifiers) *)

\* What a call of a verifier does: return a value, or throw.
Returned(b) == [threw |-> FALSE, value |-> b]

Threw == [threw |-> TRUE, value |-> FALSE]

\* verify(submission) of dinner-party-march-2026.js:
\*   submission.answer      throws a TypeError when submission is undefined;
\*   ?.trim()               is undefined when answer is undefined, and throws
\*                          when answer has no trim method (a number);
\*   .toLowerCase() === "the stars align at midnight"
dinnerPartyMarch(submission) ==
    IF submission.type = "undefined" THEN Threw
    ELSE IF submission.answer.type = "undefined" THEN Returned(FALSE)
    ELSE IF submission.answer.type # "string" THEN Threw
    ELSE Returned(toLowerCase(trim(submission.answer.chars)) = Phrase)

\* The barrel file: slug -> verifier.  Only the dinner party is registered.
verifiers == [slug \in {DinnerParty} |-> "dinnerPartyMarch"]

CallVerifier(verifier, submission) ==
    CASE verifier = "dinnerPartyMarch" -> dinnerPartyMarch(submission)

----------------------------------------------------------------------------
(* Database helpers (server/db.js) *)

\* The row of the token, or NULL.
getInvite(db, token) ==
    IF token \in DOMAIN db THEN Val(db[token]) ELSE NULL

\* UPDATE ... SET puzzle_solved = 1, solved_at = now, only if not yet solved.
markSolved(db, token, now) ==
    IF token \in DOMAIN db /\ db[token].puzzle_solved = 0
    THEN [db EXCEPT ![token].puzzle_solved = 1, ![token].solved_at = Val(now)]
    ELSE db

\* rsvp_status derived from the payload: "No" to attending declines,
\* anything else (the field absent too) accepts.
rsvpStatusOf(data) ==
    IF <<"attending", "No">> \in data THEN "declined" ELSE "accepted"

\* Overwrites rsvp_data, rsvp_status and rsvp_at of an existing row.
upsertRsvp(db, token, data, now) ==
    IF token \in DOMAIN db
    THEN [db EXCEPT ![token].rsvp_data   = Val(data),
                    ![token].rsvp_status = Val(rsvpStatusOf(data)),
                    ![token].rsvp_at     = Val(now)]
    ELSE db

\* The tokens the generator may return: those no row has yet.
generateToken(db) == Tokens \ DOMAIN db

\* INSERT INTO invites (token, event_slug, guest_name): the new row joins
\* the table, every other row is as before.
createInvite(db, token, eventSlug, guestName, now) ==
    [t \in DOMAIN db \cup {token} |->
        IF t = token THEN NewInvite(token, eventSlug, guestName, now) ELSE db[t]]

----------------------------------------------------------------------------
(* HTTP responses *)

\* res.status(s).json(b); verifier records what the verifier call did:
\* "none" (not called), "true", "false" or "throw".
Response(s, b, v) == [status |-> s, body |-> b, verifier |-> v]

InvalidInvite == [error |-> "Invalid invite"]

UnknownEvent == [error |-> "Unknown event"]

PuzzleNotYetSolved == [error |-> "Puzzle not yet solved"]

\* Express's default error handler, reached when a handler throws.
InternalServerError == [error |-> "Internal Server Error"]

----------------------------------------------------------------------------
(* POST /api/puzzle/:slug/verify *)

\* Mutant: the event of the invite is not compared with the slug of the route.
InviteMismatch_TokenOnly(invite, slug) == invite = NULL

\* if (!invite || invite.event_slug !== slug)
InviteMismatch(invite, slug) ==
    invite = NULL \/ invite[1].event_slug # slug

\* Mutant: the idempotent short-circuit is missing.
AlreadySolved_Never(invite) == FALSE

\* if (invite.puzzle_solved)
AlreadySolved(invite) == Truthy(invite[1].puzzle_solved)

\* Mutant: db.markSolved(token) is called outside the if (solved).
RunVerifier_AlwaysMark(db, verifier, token, submission, now) ==
    LET call == CallVerifier(verifier, submission) IN
    IF call.threw
    THEN [db |-> db, res |-> Response(500, InternalServerError, "throw")]
    ELSE [db  |-> markSolved(db, token, now),
          res |-> Response(200, [solved |-> call.value],
                           IF call.value THEN "true" ELSE "false")]

\* const solved = verifier(submission); if (solved) db.markSolved(token);
\* return res.json({ solved }).  A throw of the verifier leaves the handler:
\* Express answers 500 and nothing is written.
RunVerifier(db, verifier, token, submission, now) ==
    LET call == CallVerifier(verifier, submission) IN
    IF call.threw
    THEN [db |-> db, res |-> Response(500, InternalServerError, "throw")]
    ELSE IF call.value
    THEN [db  |-> markSolved(db, token, now),
          res |-> Response(200, [solved |-> TRUE], "true")]
    ELSE [db |-> db, res |-> Response(200, [solved |-> FALSE], "false")]

\* Mutant: no short-circuit, and the verdict itself is written to the row
\* (UPDATE invites SET puzzle_solved = ?).
PostPuzzleVerify_StoreVerdict(db, slug, token, submission, now) ==
    LET invite == getInvite(db, token) IN
    IF InviteMismatch(invite, slug)
    THEN [db |-> db, res |-> Response(404, InvalidInvite, "none")]
    ELSE IF slug \notin DOMAIN verifiers
    THEN [db |-> db, res |-> Response(404, UnknownEvent, "none")]
    ELSE LET call == CallVerifier(verifiers[slug], submission) IN
         IF call.threw
         THEN [db |-> db, res |-> Response(500, InternalServerError, "throw")]
         ELSE [db  |-> [db EXCEPT ![token].puzzle_solved =
                                      IF call.value THEN 1 ELSE 0],
               res |-> Response(200, [solved |-> call.value],
                                IF call.value THEN "true" ELSE "false")]

\* Mutant: no short-circuit, and an accepted attempt stamps the row itself
\* (UPDATE invites SET puzzle_solved = 1, solved_at = datetime('now')).
PostPuzzleVerify_Restamp(db, slug, token, submission, now) ==
    LET invite == getInvite(db, token) IN
    IF InviteMismatch(invite, slug)
    THEN [db |-> db, res |-> Response(404, InvalidInvite, "none")]
    ELSE IF slug \notin DOMAIN verifiers
    THEN [db |-> db, res |-> Response(404, UnknownEvent, "none")]
    ELSE LET call == CallVerifier(verifiers[slug], submission) IN
         IF call.threw
         THEN [db |-> db, res |-> Response(500, InternalServerError, "throw")]
         ELSE IF call.value
         THEN [db  |-> [db EXCEPT ![token].puzzle_solved = 1,
                                  ![token].solved_at = Val(now)],
               res |-> Response(200, [solved |-> TRUE], "true")]
         ELSE [db  |-> db,
               res |-> Response(200, [solved |-> Truthy(invite[1].puzzle_solved)],
                                "false")]

\* Mutant: the solved short-circuit is tested before the event of the invite.
PostPuzzleVerify_SolvedFirst(db, slug, token, submission, now) ==
    LET invite == getInvite(db, token) IN
    IF invite = NULL
    THEN [db |-> db, res |-> Response(404, InvalidInvite, "none")]
    ELSE IF AlreadySolved(invite)
    THEN [db |-> db, res |-> Response(200, [solved |-> TRUE], "none")]
    ELSE IF InviteMismatch(invite, slug)
    THEN [db |-> db, res |-> Response(404, InvalidInvite, "none")]
    ELSE IF slug \notin DOMAIN verifiers
    THEN [db |-> db, res |-> Response(404, UnknownEvent, "none")]
    ELSE RunVerifier(db, verifiers[slug], token, submission, now)

\* Mutant: an accepted attempt marks every unsolved row
\* (UPDATE invites SET puzzle_solved = 1 without WHERE token = ?).
PostPuzzleVerify_MarkAll(db, slug, token, submission, now) ==
    LET invite == getInvite(db, token) IN
    IF InviteMismatch(invite, slug)
    THEN [db |-> db, res |-> Response(404, InvalidInvite, "none")]
    ELSE IF AlreadySolved(invite)
    THEN [db |-> db, res |-> Response(200, [solved |-> TRUE], "none")]
    ELSE IF slug \notin DOMAIN verifiers
    THEN [db |-> db, res |-> Response(404, UnknownEvent, "none")]
    ELSE LET r == RunVerifier(db, verifiers[slug], token, submission, now) IN
         IF r.res.verifier = "true"
         THEN [db  |-> [t \in DOMAIN db |-> markSolved(db, t, now)[t]],
               res |-> r.res]
         ELSE r

PostPuzzleVerify(db, slug, token, submission, now) ==
    LET invite == getInvite(db, token) IN
    IF InviteMismatch(invite, slug)
    THEN [db |-> db, res |-> Response(404, InvalidInvite, "none")]
    ELSE IF AlreadySolved(invite)
    THEN [db |-> db, res |-> Response(200, [solved |-> TRUE], "none")]
    ELSE IF slug \notin DOMAIN verifiers
    THEN [db |-> db, res |-> Response(404, UnknownEvent, "none")]
    ELSE RunVerifier(db, verifiers[slug], token, submission, now)

----------------------------------------------------------------------------
(* POST /api/rsvp/:token *)

\* Mutant: the solved check of the RSVP route is missing.
NotYetSolved_Never(invite) == FALSE

\* if (!invite.puzzle_solved)
NotYetSolved(invite) == ~Truthy(invite[1].puzzle_solved)

\* Mutant: the row is written before the solved check.
PostRsvp_WriteFirst(db, token, body, now) ==
    LET invite == getInvite(db, token) IN
    IF invite = NULL
    THEN [db |-> db, res |-> Response(404, InvalidInvite, "none")]
    ELSE IF NotYetSolved(invite)
    THEN [db  |-> upsertRsvp(db, invite[1].token, body, now),
          res |-> Response(403, PuzzleNotYetSolved, "none")]
    ELSE [db  |-> upsertRsvp(db, invite[1].token, body, now),
          res |-> Response(200, [success |-> TRUE], "none")]

\* Mutant: the row is not tested for null before the solved check is skipped
\* (if (invite && !invite.puzzle_solved) ...; db.upsertRsvp(req.params.token)).
PostRsvp_NoNullCheck(db, token, body, now) ==
    LET invite == getInvite(db, token) IN
    IF invite # NULL /\ NotYetSolved(invite)
    THEN [db |-> db, res |-> Response(403, PuzzleNotYetSolved, "none")]
    ELSE [db  |-> upsertRsvp(db, token, body, now),
          res |-> Response(200, [success |-> TRUE], "none")]

\* Mutant: the answer carries the RSVP that was stored before.
PostRsvp_EchoPrior(db, token, body, now) ==
    LET invite == getInvite(db, token) IN
    IF invite = NULL
    THEN [db |-> db, res |-> Response(404, InvalidInvite, "none")]
    ELSE IF NotYetSolved(invite)
    THEN [db |-> db, res |-> Response(403, PuzzleNotYetSolved, "none")]
    ELSE [db  |-> upsertRsvp(db, invite[1].token, body, now),
          res |-> Response(200, [success  |-> TRUE,
                                 previous |-> invite[1].rsvp_data], "none")]

\* Mutant: an invite that has an RSVP takes no second one.
PostRsvp_Once(db, token, body, now) ==
    LET invite == getInvite(db, token) IN
    IF invite = NULL
    THEN [db |-> db, res |-> Response(404, InvalidInvite, "none")]
    ELSE IF NotYetSolved(invite)
    THEN [db |-> db, res |-> Response(403, PuzzleNotYetSolved, "none")]
    ELSE IF invite[1].rsvp_status # NULL
    THEN [db |-> db, res |-> Response(409, [error |-> "Already submitted"], "none")]
    ELSE [db  |-> upsertRsvp(db, invite[1].token, body, now),
          res |-> Response(200, [success |-> TRUE], "none")]

\* Mutant: the body is merged into the stored payload
\* ({ ...JSON.parse(invite.rsvp_data), ...req.body }).
PostRsvp_Merge(db, token, body, now) ==
    LET invite == getInvite(db, token) IN
    IF invite = NULL
    THEN [db |-> db, res |-> Response(404, InvalidInvite, "none")]
    ELSE IF NotYetSolved(invite)
    THEN [db |-> db, res |-> Response(403, PuzzleNotYetSolved, "none")]
    ELSE LET prior == IF invite[1].rsvp_data = NULL THEN {}
                      ELSE invite[1].rsvp_data[1]
             kept  == {m \in prior : \A n \in body : n[1] # m[1]}
         IN  [db  |-> upsertRsvp(db, invite[1].token, body \cup kept, now),
              res |-> Response(200, [success |-> TRUE], "none")]

PostRsvp(db, token, body, now) ==
    LET invite == getInvite(db, token) IN
    IF invite = NULL
    THEN [db |-> db, res |-> Response(404, InvalidInvite, "none")]
    ELSE IF NotYetSolved(invite)
    THEN [db |-> db, res |-> Response(403, PuzzleNotYetSolved, "none")]
    ELSE [db  |-> upsertRsvp(db, invite[1].token, body, now),
          res |-> Response(200, [success |-> TRUE], "none")]

----------------------------------------------------------------------------
(* GET /api/invite/:token *)

\* Mutant: has_rsvp carries the column itself (has_rsvp: invite.rsvp_status).
InviteState_LeakStatus(invite) ==
    [guest_name    |-> invite.guest_name,
     event_slug    |-> invite.event_slug,
     puzzle_solved |-> Truthy(invite.puzzle_solved),
     has_rsvp      |-> invite.rsvp_status]

\* Mutant: has_rsvp is true for an accepted invitation only.
InviteState_OnlyAccepted(invite) ==
    [guest_name    |-> invite.guest_name,
     event_slug    |-> invite.event_slug,
     puzzle_solved |-> Truthy(invite.puzzle_solved),
     has_rsvp      |-> invite.rsvp_status = Val("accepted")]

InviteState(invite) ==
    [guest_name    |-> invite.guest_name,
     event_slug    |-> invite.event_slug,
     puzzle_solved |-> Truthy(invite.puzzle_solved),
     has_rsvp      |-> invite.rsvp_status # NULL]

GetInvite(db, token) ==
    LET invite == getInvite(db, token) IN
    IF invite = NULL
    THEN [db |-> db, res |-> Response(404, InvalidInvite, "none")]
    ELSE [db |-> db, res |-> Response(200, InviteState(invite[1]), "none")]

----------------------------------------------------------------------------
(* The server as a state machine *)

NoSubmission == [type |-> "undefined", answer |-> JsUndefined]

\* The request just served, the row its handler loaded (getInvite) and its
\* response; seq flips on every request.
Served(op, slug, token, submission, payload, res) ==
    [op         |-> op,
     invite     |-> getInvite(invites, token),
     seq        |-> 1 - last.seq,
     slug       |-> slug,
     token      |-> token,
     submission |-> submission,
     payload    |-> payload,
     status     |-> res.status,
     body       |-> res.body,
     verifier   |-> res.verifier]

\* The table as the process finds it at start: T1 is a fresh invite to the
\* dinner party; T2 is an invite to the scavenger hunt, whose verifier the
\* running build does not register, fresh or solved under an earlier build.
InitialTables ==
    LET t1 == NewInvite("T1", DinnerParty, "Claude", 0)
        t2 == NewInvite("T2", ScavengerHunt, "Claude & Dario", 0)
    IN  { [t \in {"T1", "T2"} |-> IF t = "T1" THEN t1 ELSE t2],
          [t \in {"T1", "T2"} |->
              IF t = "T1" THEN t1
              ELSE [t2 EXCEPT !.puzzle_solved = 1, !.solved_at = Val(0)]] }

\* The guest routes do not read NODE_ENV: it stays unset where only they are
\* served.
Init ==
    /\ invites \in InitialTables
    /\ clock = 0
    /\ last = [op |-> "none", seq |-> 0, invite |-> NULL, slug |-> "", token |-> "",
               submission |-> NoSubmission, payload |-> {},
               status |-> 0, body |-> [none |-> TRUE], verifier |-> "none"]
    /\ inflight = <<>>
    /\ served = <<>>
    /\ NODE_ENV = NULL

\* attemptSolve: one request to the verify route.
AttemptSolve ==
    \E slug \in Slugs, token \in Tokens, submission \in Submissions :
        LET r == PostPuzzleVerify(invites, slug, token, submission, clock) IN
        /\ invites' = r.db
        /\ last' = Served("attemptSolve", slug, token, submission, {}, r.res)
        /\ UNCHANGED <<clock, inflight, served, NODE_ENV>>

\* submitRsvp: one request to the rsvp route.
SubmitRsvp ==
    \E token \in Tokens, payload \in Payloads :
        LET r == PostRsvp(invites, token, payload, clock) IN
        /\ invites' = r.db
        /\ last' = Served("submitRsvp", "", token, NoSubmission, payload, r.res)
        /\ UNCHANGED <<clock, inflight, served, NODE_ENV>>

\* getInviteState: one request to the invite route.
GetInviteState ==
    \E token \in Tokens :
        LET r == GetInvite(invites, token) IN
        /\ invites' = r.db
        /\ last' = Served("getInviteState", "", token, NoSubmission, {}, r.res)
        /\ UNCHANGED <<clock, inflight, served, NODE_ENV>>

\* Time passes between requests.
Tick ==
    /\ clock < MaxTime
    /\ clock' = clock + 1
    /\ UNCHANGED <<invites, last, inflight, served, NODE_ENV>>

Next ==
    \/ AttemptSolve
    \/ SubmitRsvp
    \/ GetInviteState
    \/ Tick

Spec == Init /\ [][Next]_vars

----------------------------------------------------------------------------
(* Concurrent requests on one token *)

\* Node runs each synchronous handler to completion, so requests that are in
\* flight together are handled one after the other, in any order.

VerifyCall(submission) ==
    [op |-> "attemptSolve", slug |-> DinnerParty, token |-> "T1",
     submission |-> submission, payload |-> {}]

RsvpCall(payload) ==
    [op |-> "submitRsvp", slug |-> "", token |-> "T1",
     submission |-> NoSubmission, payload |-> payload]

\* What the clients of T1 send, each any number of times: the phrase as
\* typed by a guest, a wrong phrase, and two RSVPs with different keys.
ConcurrentCalls ==
    { VerifyCall([type |-> "object", answer |-> JsString(PhraseShouted)]),
      VerifyCall([type |-> "object", answer |-> JsString(PhraseShort)]),
      RsvpCall({<<"attending", "Yes">>}),
      RsvpCall({<<"dietary", "vegan">>}) }

Pending == DOMAIN inflight \ {served[k].id : k \in DOMAIN served}

\* One handled call: when, what was answered, and the row (or NULL) before
\* and after.
Handled(id, res, db) ==
    [id     |-> id,
     at     |-> clock,
     res    |-> res,
     before |-> getInvite(invites, inflight[id].token),
     after  |-> getInvite(db, inflight[id].token)]

\* The calls meet a table in which no invite is solved yet.
InitConcurrent ==
    /\ invites \in {db \in InitialTables :
                       \A t \in DOMAIN db : db[t].puzzle_solved = 0}
    /\ clock = 0
    /\ last = [op |-> "none", seq |-> 0, invite |-> NULL, slug |-> "", token |-> "",
               submission |-> NoSubmission, payload |-> {},
               status |-> 0, body |-> [none |-> TRUE], verifier |-> "none"]
    /\ inflight \in [1..MaxCalls -> ConcurrentCalls]
    /\ served = <<>>
    /\ NODE_ENV = NULL

ServeVerify ==
    \E id \in Pending :
        LET call == inflight[id]
            r == PostPuzzleVerify(invites, call.slug, call.token,
                                  call.submission, clock)
        IN  /\ call.op = "attemptSolve"
            /\ invites' = r.db
            /\ last' = Served(call.op, call.slug, call.token, call.submission,
                              call.payload, r.res)
            /\ served' = Append(served, Handled(id, r.res, r.db))
            /\ UNCHANGED <<clock, inflight, NODE_ENV>>

ServeRsvp ==
    \E id \in Pending :
        LET call == inflight[id]
            r == PostRsvp(invites, call.token, call.payload, clock)
        IN  /\ call.op = "submitRsvp"
            /\ invites' = r.db
            /\ last' = Served(call.op, call.slug, call.token, call.submission,
                              call.payload, r.res)
            /\ served' = Append(served, Handled(id, r.res, r.db))
            /\ UNCHANGED <<clock, inflight, NODE_ENV>>

NextConcurrent ==
    \/ ServeVerify
    \/ ServeRsvp
    \/ Tick

SpecConcurrent == InitConcurrent /\ [][NextConcurrent]_vars

----------------------------------------------------------------------------
(* The admin generating invites, from an empty table, while a guest calls *)

\* What a guest sends meanwhile: the phrase and an RSVP, both for T1, which
\* the admin may or may not have generated by then.
AdminCalls ==
    << VerifyCall([type |-> "object", answer |-> JsString(Phrase)]),
       RsvpCall({<<"attending", "Yes">>}) >>

InitAdmin ==
    /\ invites = <<>>
    /\ clock = 0
    /\ last = [op |-> "none", seq |-> 0, invite |-> NULL, slug |-> "", token |-> "",
               submission |-> NoSubmission, payload |-> {},
               status |-> 0, body |-> [none |-> TRUE], verifier |-> "none"]
    /\ inflight = AdminCalls
    /\ served = <<>>
    /\ NODE_ENV = NULL

\* create: POST /api/admin/events/:slug/invites answers the new invite.
CreateInvite ==
    \E slug \in Slugs, name \in GuestNames, token \in generateToken(invites) :
        LET db == createInvite(invites, token, slug, name, clock) IN
        /\ Cardinality(DOMAIN invites) < MaxInvites
        /\ invites' = db
        /\ last' = Served("create", slug, token, NoSubmission, {},
                          Response(200, db[token], "none"))
        /\ UNCHANGED <<clock, inflight, served, NODE_ENV>>

NextAdmin ==
    \/ CreateInvite
    \/ ServeVerify
    \/ ServeRsvp
    \/ GetInviteState
    \/ Tick

SpecAdmin == InitAdmin /\ [][NextAdmin]_vars

----------------------------------------------------------------------------
(* The Express application of server/index.js *)

\* What a client may send: the method, the path, and the body as the JSON
\* body parser sees it ("none": no body, or one that is not declared as
\* application/json; "json": well-formed JSON; "malformed": JSON that does
\* not parse).
Methods == {"GET", "HEAD", "POST", "OPTIONS"}

Paths == {"/api/health", "/api/health/", "/api/unknown", "/", "/assets/index.js"}

Bodies == {"none", "json", "malformed"}

Requests == [method : Methods, path : Paths, body : Bodies]

\* The files of distPath after a build.
DistFiles == {"/index.html", "/assets/index.js"}

\* Routing is not strict: one trailing slash is ignored.
RoutePath(path) ==
    IF path = "/api/health/" THEN "/api/health" ELSE path

\* One layer of the router stack.
Layer(kind, path, handler) == [kind |-> kind, path |-> path, handler |-> handler]

\* Mutant: the production block comes before the health route.
App_CatchAllFirst(env) ==
    << Layer("cors", "", ""), Layer("json", "", "") >>
    \o (IF env = Val("production")
        THEN << Layer("static", "", ""), Layer("get", "*", "sendIndex") >>
        ELSE << >>)
    \o << Layer("get", "/api/health", "healthCheck") >>

\* The stack in the order of the app.use and app.get calls.
App(env) ==
    << Layer("cors", "", ""), Layer("json", "", ""),
       Layer("get", "/api/health", "healthCheck") >>
    \o (IF env = Val("production")
        THEN << Layer("static", "", ""), Layer("get", "*", "sendIndex") >>
        ELSE << >>)

\* What the client receives, and the layer that answered.
Answer(by, s, b) == [by |-> by, status |-> s, body |-> b]

\* new Date().toISOString()
toISOString(now) == <<"ISO-8601", now>>

\* res.json({ status: "ok", timestamp: new Date().toISOString() })
healthCheck(db, now) ==
    [db  |-> db,
     res |-> Answer("healthCheck", 200,
                    [status |-> "ok", timestamp |-> toISOString(now)])]

\* res.sendFile(join(distPath, "index.html"))
sendIndex(db, now) ==
    [db |-> db, res |-> Answer("sendIndex", 200, [file |-> "/index.html"])]

CallHandler(handler, db, now) ==
    CASE handler = "healthCheck" -> healthCheck(db, now)
      [] handler = "sendIndex"   -> sendIndex(db, now)

\* app.get(path, handler) answers GET and, there being no HEAD route, HEAD.
RouteMatches(layer, req) ==
    /\ req.method \in {"GET", "HEAD"}
    /\ layer.path = "*" \/ layer.path = RoutePath(req.path)

\* The request goes down the stack from layer i until a layer answers it:
\*   cors()           answers a preflight (OPTIONS) itself with 204;
\*   express.json()   passes a malformed JSON body to the error handler, and
\*                    there being none registered, Express answers 400;
\*   express.static() answers a GET or HEAD of a file of distPath;
\*   a route          answers when its method and path match;
\*   past the last layer Express answers 404.
RECURSIVE Handle(_, _, _, _, _)
Handle(stack, i, req, db, now) ==
    IF i > Len(stack)
    THEN [db |-> db, res |-> Answer("finalhandler", 404, [error |-> "Not Found"])]
    ELSE LET layer == stack[i]
             next  == Handle(stack, i + 1, req, db, now)
         IN  CASE layer.kind = "cors" ->
                    IF req.method = "OPTIONS"
                    THEN [db |-> db, res |-> Answer("cors", 204, [none |-> TRUE])]
                    ELSE next
               [] layer.kind = "json" ->
                    IF req.body = "malformed"
                    THEN [db  |-> db,
                          res |-> Answer("express.json", 400,
                                         [error |-> "Bad Request"])]
                    ELSE next
               [] layer.kind = "static" ->
                    IF req.method \in {"GET", "HEAD"} /\ req.path \in DistFiles
                    THEN [db  |-> db,
                          res |-> Answer("express.static", 200,
                                         [file |-> req.path])]
                    ELSE next
               [] layer.kind = "get" ->
                    IF RouteMatches(layer, req)
                    THEN CallHandler(layer.handler, db, now)
                    ELSE next

\* The process starts in any mode: NODE_ENV unset, or set by the deployment.
InitHealth ==
    /\ invites \in InitialTables
    /\ clock = 0
    /\ NODE_ENV \in {NULL, Val("development"), Val("production")}
    /\ last = [op |-> "none", seq |-> 0, req |-> [method |-> "", path |-> "",
                                                  body |-> "none"],
               by |-> "", status |-> 0, body |-> [none |-> TRUE]]
    /\ inflight = <<>>
    /\ served = <<>>

\* One request to the application.
HttpRequest ==
    \E req \in Requests :
        LET r == Handle(App(NODE_ENV), 1, req, invites, clock) IN
        /\ invites' = r.db
        /\ last' = [op |-> "http", seq |-> 1 - last.seq, req |-> req,
                    by |-> r.res.by, status |-> r.res.status,
                    body |-> r.res.body]
        /\ UNCHANGED <<clock, inflight, served, NODE_ENV>>

NextHealth ==
    \/ HttpRequest
    \/ Tick

SpecHealth == InitHealth /\ [][NextHealth]_vars

----------------------------------------------------------------------------
(* Shorthands for the properties *)

\* This step served a request of the given kind.
Request(op) == last'.seq # last.seq /\ last'.op = op

Exists(token) == token \in DOMAIN invites

\* The row of the served token before the request, when it had one.
Loaded == last.invite[1]

\* The verifier registered for the slug returns false for the submission.
Rejects(slug, submission) ==
    /\ slug \in DOMAIN verifiers
    /\ CallVerifier(verifiers[slug], submission) = Returned(FALSE)

\* The verifier registered for the slug returns true for the submission.
Accepts(slug, submission) ==
    /\ slug \in DOMAIN verifiers
    /\ CallVerifier(verifiers[slug], submission) = Returned(TRUE)

----------------------------------------------------------------------------
(* Properties *)

\* C1: no RSVP is ever stored for an unsolved invite: a row whose
\* rsvp_status or rsvp_data is set has puzzle_solved = 1.
C1_RsvpOnlyWhenSolved ==
    \A t \in DOMAIN invites :
        (invites[t].rsvp_status # NULL \/ invites[t].rsvp_data # NULL)
            => invites[t].puzzle_solved = 1

\* An RSVP is stored for a solved invite while an RSVP for an unsolved one
\* has just been refused.
C1_Witness ==
    /\ \E t \in DOMAIN invites :
          invites[t].puzzle_solved = 1 /\ invites[t].rsvp_data # NULL
    /\ last.op = "submitRsvp" /\ last.status = 403
    /\ invites[last.token].puzzle_solved = 0

\* C2: puzzle_solved goes from 0 to 1 only in an attemptSolve request on that
\* token whose slug is the invite's event_slug and whose submission the
\* verifier registered for that event returned true for.
C2_SolvedOnlyByAcceptedAttempt ==
    [][\A t \in DOMAIN invites \cap DOMAIN invites' :
          (invites[t].puzzle_solved = 0 /\ invites'[t].puzzle_solved # 0)
              => /\ Request("attemptSolve")
                 /\ last'.token = t
                 /\ last'.slug = invites[t].event_slug
                 /\ last'.verifier = "true"
                 /\ Accepts(last'.slug, last'.submission)]_vars

\* An accepted attempt has just solved the invite.
C2_Witness ==
    /\ last.op = "attemptSolve" /\ last.verifier = "true"
    /\ Loaded.puzzle_solved = 0
    /\ invites[last.token].puzzle_solved = 1
    /\ invites[last.token].solved_at = Val(clock)

\* C3: puzzle_solved is a one-way latch: a row that is solved is solved in
\* the next state, whatever the step.
C3_SolvedLatch ==
    [][\A t \in DOMAIN invites :
          Truthy(invites[t].puzzle_solved)
              => t \in DOMAIN invites' /\ Truthy(invites'[t].puzzle_solved)]_vars

\* A rejected attempt has been served on an invite solved earlier, which
\* is still solved.
C3_Witness ==
    /\ last.op = "attemptSolve" /\ last.invite # NULL
    /\ Rejects(last.slug, last.submission)
    /\ Loaded.event_slug = last.slug
    /\ Loaded.solved_at # NULL /\ Loaded.solved_at[1] < clock
    /\ invites[last.token].puzzle_solved = 1

\* C4: submitRsvp on an existing unsolved token is refused with 403
\* "Puzzle not yet solved" whatever the payload, and the row is as before.
C4_RsvpForbiddenUnsolved ==
    (last.op = "submitRsvp" /\ last.invite # NULL /\ Loaded.puzzle_solved = 0)
        => /\ last.status = 403
           /\ last.body = PuzzleNotYetSolved
           /\ invites[last.token] = Loaded

\* A non-empty RSVP for an unsolved invite has just been refused.
C4_Witness ==
    /\ last.op = "submitRsvp" /\ last.invite # NULL
    /\ Loaded.puzzle_solved = 0
    /\ last.payload # {}
    /\ last.status = 403

\* C5: an attemptSolve whose submission the verifier rejects leaves every
\* row as it was, and on an unsolved invite of that event it answers
\* { solved: false }.
C5_RejectedAttemptChangesNothing ==
    [][(Request("attemptSolve") /\ Rejects(last'.slug, last'.submission))
          => /\ invites' = invites
             /\ (/\ last'.invite # NULL
                 /\ last'.invite[1].event_slug = last'.slug
                 /\ last'.invite[1].puzzle_solved = 0)
                    => /\ last'.status = 200
                       /\ last'.body = [solved |-> FALSE]]_vars

\* A wrong phrase has just been answered { solved: false } on an unsolved
\* invite.
C5_Witness ==
    /\ last.op = "attemptSolve" /\ last.invite # NULL
    /\ last.submission.answer = JsString(PhraseShort)
    /\ Loaded.event_slug = last.slug /\ Loaded.puzzle_solved = 0
    /\ last.body = [solved |-> FALSE]
    /\ invites[last.token].solved_at = NULL

\* C6: attemptSolve on a solved invite with the invite's own event answers
\* { solved: true } for any submission, registered verifier or not, without
\* calling a verifier and without changing the row.
C6_SolvedShortCircuit ==
    (/\ last.op = "attemptSolve" /\ last.invite # NULL
     /\ Loaded.event_slug = last.slug
     /\ Truthy(Loaded.puzzle_solved))
        => /\ last.status = 200
           /\ last.body = [solved |-> TRUE]
           /\ last.verifier = "none"
           /\ invites[last.token] = Loaded

\* A submission the verifier rejects has just been answered { solved: true }
\* on a solved invite.
C6_Witness ==
    /\ last.op = "attemptSolve" /\ last.invite # NULL
    /\ Loaded.event_slug = last.slug /\ Loaded.puzzle_solved = 1
    /\ Rejects(last.slug, last.submission)
    /\ last.body = [solved |-> TRUE]

\* C7: attemptSolve answers the same 404 "Invalid invite" when the token has
\* no row and when its row is bound to another event, solved or not and
\* whatever the submission; no verifier is called and no row changes.
C7_NotFoundSameForBoth ==
    [][(/\ Request("attemptSolve")
        /\ \/ last'.invite = NULL
           \/ last'.invite[1].event_slug # last'.slug)
          => /\ last'.status = 404
             /\ last'.body = InvalidInvite
             /\ last'.verifier = "none"
             /\ invites' = invites]_vars

\* The right phrase under the wrong event, on a solved invite, has just been
\* answered 404.
C7_Witness ==
    /\ last.op = "attemptSolve" /\ last.invite # NULL
    /\ Loaded.event_slug # last.slug /\ Loaded.puzzle_solved = 1
    /\ last.submission.answer = JsString(Phrase)
    /\ last.status = 404 /\ last.body = InvalidInvite

\* C8: a successful submitRsvp leaves exactly its payload in rsvp_data, and
\* nothing but a successful submitRsvp on the token changes rsvp_data: the
\* stored payload is that of the last successful call, never a merge.
C8_RsvpFullOverwrite ==
    [][\A t \in DOMAIN invites \cap DOMAIN invites' :
          /\ (Request("submitRsvp") /\ last'.status = 200 /\ last'.token = t)
                => invites'[t].rsvp_data = Val(last'.payload)
          /\ invites'[t].rsvp_data # invites[t].rsvp_data
                => (Request("submitRsvp") /\ last'.status = 200
                    /\ last'.token = t)]_vars

\* A payload has just replaced a stored one that had a key it lacks.
C8_Witness ==
    /\ last.op = "submitRsvp" /\ last.status = 200
    /\ Loaded.rsvp_data # NULL
    /\ \E m \in Loaded.rsvp_data[1] : \A n \in last.payload : n[1] # m[1]
    /\ invites[last.token].rsvp_data = Val(last.payload)

\* Rows that differ from the given one only in the content of rsvp_data and
\* in which value a set rsvp_status has.
RsvpVariants(row) ==
    { [row EXCEPT !.rsvp_data = d, !.rsvp_status = s] :
        d \in {NULL} \cup {Val(p) : p \in Payloads},
        s \in IF row.rsvp_status = NULL THEN {NULL}
              ELSE {Val("accepted"), Val("declined")} }

\* C9: the answer of GET invite state has the four fields guest_name,
\* event_slug, puzzle_solved and has_rsvp, and is the same for every store
\* that differs only in the content of rsvp_data or in the value of a set
\* rsvp_status.
C9_InviteStateHidesRsvp ==
    (last.op = "getInviteState" /\ last.invite # NULL)
        => /\ last.status = 200
           /\ DOMAIN last.body =
                 {"guest_name", "event_slug", "puzzle_solved", "has_rsvp"}
           /\ \A r \in RsvpVariants(invites[last.token]) :
                 GetInvite([invites EXCEPT ![last.token] = r],
                           last.token).res.body = last.body

\* The state of an invite with a stored RSVP has just been read.
C9_Witness ==
    /\ last.op = "getInviteState" /\ last.status = 200
    /\ invites[last.token].rsvp_data # NULL
    /\ invites[last.token].rsvp_data # Val({})
    /\ last.body.has_rsvp = TRUE

\* C10: when the verifier throws, attemptSolve on an unsolved invite answers
\* { solved: false } and the row is as before.
C10_ThrowingVerifierFailsClosed ==
    (last.op = "attemptSolve" /\ last.verifier = "throw")
        => /\ last.status = 200
           /\ last.body = [solved |-> FALSE]
           /\ invites[last.token] = Loaded

----------------------------------------------------------------------------
(* Properties of concurrent requests (SpecConcurrent) *)

\* Positions of the log at which the row went from unsolved to solved.
Transitions ==
    {k \in DOMAIN served :
        /\ served[k].before # NULL
        /\ served[k].before[1].puzzle_solved = 0
        /\ served[k].after[1].puzzle_solved # 0}

\* Positions of the log that handled an attemptSolve the verifier accepts.
AcceptedAttempts ==
    {k \in DOMAIN served :
        /\ inflight[served[k].id].op = "attemptSolve"
        /\ Accepts(inflight[served[k].id].slug, inflight[served[k].id].submission)}

\* C11: however the in-flight calls on the unsolved token are ordered, the
\* row goes from unsolved to solved at most once; once an accepted attempt
\* has been handled it did so exactly once, in an accepted attempt, which
\* set solved_at to its time; every other call left puzzle_solved and
\* solved_at alone, and every accepted attempt answered { solved: true }.
C11_OneFirstSolve ==
    /\ Cardinality(Transitions) <= 1
    /\ Transitions \subseteq AcceptedAttempts
    /\ AcceptedAttempts # {} => Cardinality(Transitions) = 1
    /\ \A k \in DOMAIN served :
          /\ k \in AcceptedAttempts
                => /\ served[k].res.status = 200
                   /\ served[k].res.body = [solved |-> TRUE]
          /\ k \in Transitions
                => /\ served[k].before[1].solved_at = NULL
                   /\ served[k].after[1].solved_at = Val(served[k].at)
          /\ k \notin Transitions
                => /\ served[k].before # NULL
                   /\ served[k].after[1].puzzle_solved =
                         served[k].before[1].puzzle_solved
                   /\ served[k].after[1].solved_at = served[k].before[1].solved_at
          /\ (k \in AcceptedAttempts /\ k \notin Transitions)
                => served[k].after = served[k].before

\* Two accepted attempts were in flight together and both have been handled,
\* the second at a later time than the first.
C11_Witness ==
    \E j, k \in AcceptedAttempts :
        /\ j < k
        /\ served[j].id # served[k].id
        /\ served[j].at < served[k].at
        /\ served[k].res.body = [solved |-> TRUE]
        /\ invites["T1"].solved_at = Val(served[j].at)

\* Positions of the log that handled a successful submitRsvp.
RsvpWrites ==
    {k \in DOMAIN served :
        inflight[served[k].id].op = "submitRsvp" /\ served[k].res.status = 200}

\* The position of the last write.
LastWrite == CHOOSE k \in RsvpWrites : \A j \in RsvpWrites : j <= k

\* C12: however the in-flight submitRsvp calls on the token are ordered, in
\* every state rsvp_data is the prior value or the whole payload of one of
\* the calls, and rsvp_data, rsvp_status and rsvp_at all come from the last
\* successful call handled.
C12_RsvpLastWriteWins ==
    LET row == invites["T1"] IN
    /\ row.rsvp_data \in
          {NULL} \cup {Val(inflight[id].payload) : id \in DOMAIN inflight}
    /\ RsvpWrites = {}
          => row.rsvp_data = NULL /\ row.rsvp_status = NULL /\ row.rsvp_at = NULL
    /\ RsvpWrites # {}
          => LET payload == inflight[served[LastWrite].id].payload IN
             /\ row.rsvp_data = Val(payload)
             /\ row.rsvp_status = Val(rsvpStatusOf(payload))
             /\ row.rsvp_at = Val(served[LastWrite].at)

\* Two RSVPs with different payloads were in flight together and both have
\* been written.
C12_Witness ==
    \E j, k \in RsvpWrites :
        /\ j < k
        /\ inflight[served[j].id].payload # inflight[served[k].id].payload
        /\ invites["T1"].rsvp_data = Val(inflight[served[k].id].payload)

----------------------------------------------------------------------------
(* Further properties of the routes (Spec) *)

\* This step served a successful submitRsvp on the token.
RsvpWritten(t) ==
    Request("submitRsvp") /\ last'.status = 200 /\ last'.token = t

SolvedAtAgrees(row) == row.solved_at # NULL <=> Truthy(row.puzzle_solved)

\* C13: solved_at is set if and only if puzzle_solved is true, before and
\* after every step, and a solved_at that is set is never changed.
C13_SolvedAtSetOnce ==
    [][\A t \in DOMAIN invites \cap DOMAIN invites' :
          /\ SolvedAtAgrees(invites[t])
          /\ SolvedAtAgrees(invites'[t])
          /\ invites[t].solved_at # NULL
                => invites'[t].solved_at = invites[t].solved_at]_vars

\* An accepted attempt has just been served on an invite solved at an
\* earlier time, and solved_at is still that time.
C13_Witness ==
    /\ last.op = "attemptSolve" /\ last.invite # NULL
    /\ Accepts(last.slug, last.submission)
    /\ Loaded.event_slug = last.slug
    /\ Loaded.solved_at # NULL /\ Loaded.solved_at[1] < clock
    /\ invites[last.token].solved_at = Loaded.solved_at

\* C14: attemptSolve on an unsolved invite of an event without a registered
\* verifier changes nothing and answers exactly what an invalid invite is
\* answered: 404 "Invalid invite".
C14_UnknownEventLooksNotFound ==
    (/\ last.op = "attemptSolve" /\ last.invite # NULL
     /\ Loaded.event_slug = last.slug
     /\ Loaded.puzzle_solved = 0
     /\ last.slug \notin DOMAIN verifiers)
        => /\ last.status = 404
           /\ last.body = InvalidInvite
           /\ invites[last.token] = Loaded

\* C15: submitRsvp with a token that has no row answers 404 "Invalid invite"
\* whatever the payload, and the table is as before: no row is created.
C15_RsvpUnknownToken ==
    [][(Request("submitRsvp") /\ last'.invite = NULL)
          => /\ last'.status = 404
             /\ last'.body = InvalidInvite
             /\ invites' = invites
             /\ last'.token \notin DOMAIN invites']_vars

\* A non-empty RSVP for a token without a row has just been refused.
C15_Witness ==
    /\ last.op = "submitRsvp" /\ last.invite = NULL
    /\ last.payload # {}
    /\ last.status = 404
    /\ last.token \notin DOMAIN invites

\* has_rsvp as GET invite state reports it for the token.
HasRsvp(db, t) == GetInvite(db, t).res.body.has_rsvp

\* C16: has_rsvp is false at first; it becomes true in a successful
\* submitRsvp on the token and in no other step, is true after every
\* successful submitRsvp whatever the payload, and once true stays true.
C16_HasRsvpLatch ==
    /\ \A t \in DOMAIN invites : ~HasRsvp(invites, t)
    /\ [][\A t \in DOMAIN invites \cap DOMAIN invites' :
             /\ RsvpWritten(t) => HasRsvp(invites', t)
             /\ HasRsvp(invites, t) => HasRsvp(invites', t)
             /\ (~HasRsvp(invites, t) /\ HasRsvp(invites', t))
                   => RsvpWritten(t)]_vars

\* The state of an invite whose last RSVP, stored earlier, declines has just
\* been read as has_rsvp = true.
C16_Witness ==
    /\ last.op = "getInviteState" /\ last.status = 200
    /\ invites[last.token].rsvp_status = Val("declined")
    /\ invites[last.token].rsvp_at # NULL
    /\ invites[last.token].rsvp_at[1] < clock
    /\ last.body.has_rsvp = TRUE

PriorRsvps(row) ==
    { [row EXCEPT !.rsvp_data = d, !.rsvp_status = s] :
        d \in {NULL} \cup {Val(p) : p \in Payloads},
        s \in {NULL, Val("accepted"), Val("declined")} }

\* C18: a successful submitRsvp answers the bare { success: true }, and the
\* same for every RSVP stored before and every payload submitted.
C18_RsvpAckIsBare ==
    (last.op = "submitRsvp" /\ last.status = 200)
        => /\ last.body = [success |-> TRUE]
           /\ \A r \in PriorRsvps(Loaded), p \in Payloads :
                 LET other == PostRsvp([invites EXCEPT ![last.token] = r],
                                       last.token, p, clock).res
                 IN  other.status = last.status /\ other.body = last.body

\* A payload has just been acknowledged over a different stored one.
C18_Witness ==
    /\ last.op = "submitRsvp" /\ last.status = 200
    /\ Loaded.rsvp_data # NULL
    /\ Loaded.rsvp_data # Val(last.payload)
    /\ last.body = [success |-> TRUE]

\* C19: in every state every solved invite takes an RSVP: submitRsvp with
\* any payload answers 200 and stores it, however many were stored before;
\* and each of the three requests can be served, none blocks.
C19_NoTerminalState ==
    /\ \A t \in DOMAIN invites :
          Truthy(invites[t].puzzle_solved)
              => \A p \in Payloads :
                    LET r == PostRsvp(invites, t, p, clock) IN
                    /\ r.res.status = 200
                    /\ r.db[t].rsvp_data = Val(p)
    /\ ENABLED AttemptSolve
    /\ ENABLED SubmitRsvp
    /\ ENABLED GetInviteState

\* An RSVP that accepts has just replaced, at a later time, one that declined.
C19_Witness ==
    /\ last.op = "submitRsvp" /\ last.status = 200
    /\ Loaded.rsvp_status = Val("declined")
    /\ Loaded.rsvp_at[1] < clock
    /\ invites[last.token].rsvp_status = Val("accepted")

----------------------------------------------------------------------------
(* Properties of invite generation (SpecAdmin) *)

\* Every row is filed under its own token and bound to an event: the tokens
\* of the table are pairwise distinct.
TokensDistinct(db) ==
    /\ \A t \in DOMAIN db : db[t].token = t /\ db[t].event_slug \in Slugs
    /\ \A t, u \in DOMAIN db : t # u => db[t].token # db[u].token

\* C20: create answers a new invite whose token no row had before, bound to
\* the given event and name, unsolved and with rsvp_status, rsvp_data,
\* solved_at and rsvp_at unset; it adds that row and leaves every other row
\* as it was.  Before and after every step the tokens of the table are
\* pairwise distinct, and no step rebinds a token to another event.
C20_CreateFreshInvite ==
    [][/\ TokensDistinct(invites)
       /\ TokensDistinct(invites')
       /\ \A t \in DOMAIN invites :
             t \in DOMAIN invites' /\ invites'[t].event_slug = invites[t].event_slug
       /\ Request("create")
             => LET t == last'.token IN
                /\ t \notin DOMAIN invites
                /\ last'.invite = NULL
                /\ DOMAIN invites' = DOMAIN invites \cup {t}
                /\ \A u \in DOMAIN invites : invites'[u] = invites[u]
                /\ last'.body = invites'[t]
                /\ invites'[t].token = t
                /\ invites'[t].event_slug = last'.slug
                /\ invites'[t].guest_name \in GuestNames
                /\ invites'[t].puzzle_solved = 0
                /\ invites'[t].rsvp_status = NULL
                /\ invites'[t].rsvp_data = NULL
                /\ invites'[t].solved_at = NULL
                /\ invites'[t].rsvp_at = NULL]_vars

\* A second invite has just been generated, at a later time, beside one
\* that is solved and has an RSVP.
C20_Witness ==
    /\ last.op = "create"
    /\ invites[last.token].created_at = clock
    /\ \E u \in DOMAIN invites :
          /\ u # last.token
          /\ invites[u].created_at < clock
          /\ invites[u].puzzle_solved = 1
          /\ invites[u].rsvp_data # NULL
    /\ invites[last.token].puzzle_solved = 0

----------------------------------------------------------------------------
(* Frame of the guest routes *)

GuestOps == {"attemptSolve", "submitRsvp", "getInviteState"}

\* The columns of a row that are fixed when it is created.
Identity(row) ==
    <<row.token, row.event_slug, row.guest_name, row.created_at>>

\* C21: a request of attemptSolve, submitRsvp or getInviteState on token T
\* adds and removes no row, leaves the row of every other token as it was and
\* leaves event_slug, guest_name and created_at of T's row as they were;
\* getInviteState leaves the whole table as it was.
C21_GuestCallsFrame ==
    [][\A op \in GuestOps :
          Request(op)
              => /\ DOMAIN invites' = DOMAIN invites
                 /\ \A t \in DOMAIN invites :
                       /\ t # last'.token => invites'[t] = invites[t]
                       /\ Identity(invites'[t]) = Identity(invites[t])
                 /\ op = "getInviteState" => invites' = invites]_vars

\* An RSVP for T1 has just been stored, later than T1 was created, beside
\* the row of T2.
C21_Witness ==
    /\ last.op = "submitRsvp" /\ last.status = 200 /\ last.token = "T1"
    /\ invites["T1"].rsvp_at = Val(clock)
    /\ invites["T1"].created_at < clock
    /\ invites["T1"].solved_at # NULL
    /\ "T2" \in DOMAIN invites
    /\ invites["T2"].puzzle_solved = 0

----------------------------------------------------------------------------
(* Properties of the health check (SpecHealth) *)

\* This step served a GET request for the health route.
HealthRequest ==
    /\ Request("http")
    /\ last'.req.method = "GET"
    /\ RoutePath(last'.req.path) = "/api/health"

\* The health-check handler answered this step: 200, status "ok" and the
\* time of the request, whatever the table holds, and the table is as before.
HealthAnswer ==
    /\ last'.by = "healthCheck"
    /\ last'.status = 200
    /\ last'.body = [status |-> "ok", timestamp |-> toISOString(clock)]
    /\ invites' = invites

\* C22 as stated: every GET /api/health request is answered by the
\* health-check handler with status "ok", in production mode and outside it,
\* and the table is left as it was.
C22_HealthAlwaysOk ==
    [][HealthRequest => HealthAnswer]_vars

\* C22 as amended: every GET /api/health request whose body express.json()
\* does not reject is answered by the health-check handler with status "ok",
\* in production mode and outside it; one that it rejects is answered 400 by
\* express.json(); neither express.static nor the catch-all route ever
\* answers a GET /api/health request, and the table is left as it was.
C22_HealthOkPastBodyParser ==
    [][HealthRequest
          => /\ last'.req.body # "malformed" => HealthAnswer
             /\ last'.req.body = "malformed"
                   => last'.by = "express.json" /\ last'.status = 400
             /\ last'.by \notin {"express.static", "sendIndex", "finalhandler"}
             /\ invites' = invites]_vars

\* In production mode the health-check handler has just answered a GET
\* /api/health request, after the clock advanced.
C22_Witness ==
    /\ NODE_ENV = Val("production")
    /\ last.op = "http"
    /\ last.req = [method |-> "GET", path |-> "/api/health", body |-> "none"]
    /\ last.by = "healthCheck"
    /\ last.body = [status |-> "ok", timestamp |-> toISOString(1)]

====
